---- MODULE Spec2Model ----
(***************************************************************************)
(* Model of np_eyetracking/lims_dlc.py: the raw-video classifier           *)
(* (get_video_files), the job resolver (get_spoof_ecephys_session), the    *)
(* upload (upload_video_data_to_lims) and the retriever                    *)
(* (get_dlc_paths, get_eye_tracking_paths).                                *)
(*                                                                         *)
(* File names are sequences of one-character strings so that the glob,     *)
(* pathlib's suffix, str.lower() and the `in` substring tests are          *)
(* computed the way the code computes them.                                *)
(***************************************************************************)
EXTENDS Integers, Sequences, FiniteSets, TLC

(***************************************************************************)
(* Bounds                                                                  *)
(***************************************************************************)
MaxFiles == 6
MaxFails == 1

(***************************************************************************)
(* Characters and names                                                    *)
(***************************************************************************)
EYE      == <<"e","y","e">>
FACE     == <<"f","a","c","e">>
SIDE     == <<"s","i","d","e">>
BEHAVIOR == <<"b","e","h","a","v","i","o","r">>
ELLIPSE  == <<"e","l","l","i","p","s","e">>
TRACKING == <<"_","t","r","a","c","k","i","n","g">>
DOT_MP4  == <<".","m","p","4">>
DOT_JSON == <<".","j","s","o","n">>
DOT_TXT  == <<".","t","x","t">>
DOT_H5   == <<".","h","5">>

\* str.lower() on one character (the upper-case letters the names below use)
LowerChar(c) ==
    CASE c = "E" -> "e"
      [] c = "F" -> "f"
      [] c = "S" -> "s"
      [] c = "B" -> "b"
      [] c = "M" -> "m"
      [] c = "P" -> "p"
      [] c = "J" -> "j"
      [] c = "T" -> "t"
      [] OTHER   -> c

\* str.lower()
Lower(s) == [i \in 1..Len(s) |-> LowerChar(s[i])]

\* the Python test `sub in s`
Contains(sub, s) ==
    \E i \in 1..(Len(s) - Len(sub) + 1) : SubSeq(s, i, i + Len(sub) - 1) = sub

\* pathlib.PurePath.suffix: the part from the last dot, unless that dot is
\* the first or the last character of the name
Suffix(name) ==
    LET n == Len(name)
        IsLastDot(i) == name[i] = "." /\ \A j \in (i + 1)..n : name[j] # "."
    IN  IF \E i \in 2..(n - 1) : IsLastDot(i)
        THEN SubSeq(name, CHOOSE i \in 2..(n - 1) : IsLastDot(i), n)
        ELSE <<>>

(***************************************************************************)
(* get_video_files                                                          *)
(***************************************************************************)
\* the two bracket expressions of the glob pattern
\* '[eye|face|side|behavior]*[.mp4|.json]': each is a character class
GlobFirstClass == {"e","y","|","f","a","c","s","i","d","b","h","v","o","r"}
GlobLastClass  == {".","m","p","4","|","j","s","o","n"}

\* pathlib matches case-insensitively on Windows and case-sensitively on
\* POSIX: fold says which platform the program runs on
GlobChar(c, fold) == IF fold THEN LowerChar(c) ELSE c

\* fnmatch of the pattern: one character of the first class, anything,
\* one character of the last class
GlobMatch(name, fold) ==
    /\ Len(name) >= 2
    /\ GlobChar(name[1], fold) \in GlobFirstClass
    /\ GlobChar(name[Len(name)], fold) \in GlobLastClass

\* session.npexp_path.glob(...): the files the loop enumerates
Glob(dir, fold) == {n \in dir : GlobMatch(n, fold)}

\* variant: the first cue found is kept (elif in place of if)
KeyOf_FirstCue(path) ==
    LET low  == Lower(path)
        suf  == Lower(Suffix(path))
        beh  == Contains(SIDE, low) \/ Contains(BEHAVIOR, low)
        m1   == IF Contains(EYE, low) THEN "eye_tracking"
                ELSE IF Contains(FACE, low) THEN "face_tracking"
                ELSE IF beh THEN "behavior_tracking" ELSE ""
        j1   == IF Contains(EYE, low) THEN "eye_cam_json"
                ELSE IF Contains(FACE, low) THEN "face_cam_json"
                ELSE IF beh THEN "beh_cam_json" ELSE ""
    IN  IF suf = DOT_JSON THEN j1 ELSE IF suf = DOT_MP4 THEN m1 ELSE ""

\* variant: the cue 'behavior' is not tested, only 'side'
KeyOf_SideOnly(path) ==
    LET low  == Lower(path)
        suf  == Lower(Suffix(path))
        m1   == IF Contains(EYE, low) THEN "eye_tracking" ELSE ""
        m2   == IF Contains(FACE, low) THEN "face_tracking" ELSE m1
        m3   == IF Contains(SIDE, low) THEN "behavior_tracking" ELSE m2
        k1   == IF suf = DOT_MP4 THEN m3 ELSE ""
        j1   == IF Contains(EYE, low) THEN "eye_cam_json" ELSE k1
        j2   == IF Contains(FACE, low) THEN "face_cam_json" ELSE j1
        j3   == IF Contains(SIDE, low) THEN "beh_cam_json" ELSE j2
    IN  IF suf = DOT_JSON THEN j3 ELSE k1

\* the body of the loop up to the two assertions: the key of one path
KeyOf(path) ==
    LET low  == Lower(path)
        suf  == Lower(Suffix(path))
        m1   == IF Contains(EYE, low) THEN "eye_tracking" ELSE ""
        m2   == IF Contains(FACE, low) THEN "face_tracking" ELSE m1
        m3   == IF Contains(SIDE, low) \/ Contains(BEHAVIOR, low)
                THEN "behavior_tracking" ELSE m2
        k1   == IF suf = DOT_MP4 THEN m3 ELSE ""
        j1   == IF Contains(EYE, low) THEN "eye_cam_json" ELSE k1
        j2   == IF Contains(FACE, low) THEN "face_cam_json" ELSE j1
        j3   == IF Contains(SIDE, low) \/ Contains(BEHAVIOR, low)
                THEN "beh_cam_json" ELSE j2
    IN  IF suf = DOT_JSON THEN j3 ELSE k1

NoFiles == <<>>

\* the accumulator of the loop: the dict lims_name_to_path (a function on
\* the keys stored so far), and the assertion that failed, if one did
GvfEmpty == [map |-> NoFiles, err |-> "none", files |-> {}]

\* variant: every key is taken as present
HasKey_Always(key) == TRUE

\* line 62: the condition of `assert key`
HasKey(key) == key # ""

\* variant: no key is taken as stored already
HasRole_Never(map, key) == FALSE

\* line 63: the negation of the condition of `assert key not in video_files`
HasRole(map, key) == key \in DOMAIN map

\* one iteration of the loop on path (no effect after an assertion failed)
GvfBody(acc, path) ==
    LET key == KeyOf(path)
    IN  IF acc.err # "none" THEN acc
        ELSE IF ~HasKey(key)
             THEN [acc EXCEPT !.err = "unexpected", !.files = {path}]
        ELSE IF HasRole(acc.map, key)
             THEN [acc EXCEPT !.err = "duplicate", !.files = {acc.map[key], path}]
        ELSE [acc EXCEPT !.map = (key :> path) @@ acc.map]

\* variant: an empty dict passes
GvfEnd_AllowEmpty(acc) == acc

\* the assertion after the loop
GvfEnd(acc) ==
    IF acc.err = "none" /\ DOMAIN acc.map = {}
    THEN [acc EXCEPT !.err = "empty"]
    ELSE acc

RECURSIVE GvfLoop(_, _)
GvfLoop(acc, order) ==
    IF order = <<>> THEN acc
    ELSE GvfLoop(GvfBody(acc, Head(order)), Tail(order))

\* the enumeration orders of a set of files
RECURSIVE Orders(_)
Orders(S) ==
    IF S = {} THEN {<<>>}
    ELSE UNION {{<<x>> \o o : o \in Orders(S \ {x})} : x \in S}

\* get_video_files on a directory: one outcome per enumeration order
get_video_files(dir, fold) ==
    {GvfEnd(GvfLoop(GvfEmpty, o)) : o \in Orders(Glob(dir, fold))}

(***************************************************************************)
(* Names the directories of the model are made of                          *)
(***************************************************************************)
eye_mp4       == EYE \o DOT_MP4
Eye_json      == <<"E","y","e">> \o DOT_JSON
face_mp4      == FACE \o DOT_MP4
face_json     == FACE \o DOT_JSON
side_mp4      == SIDE \o DOT_MP4
behavior_json == BEHAVIOR \o DOT_JSON
xeye_json     == <<"x">> \o EYE \o DOT_JSON
eye2_mp4      == EYE \o <<"2">> \o DOT_MP4
video_mp4     == <<"v","i","d","e","o">> \o DOT_MP4
notes_txt     == <<"n","o","t","e","s">> \o DOT_TXT
eyeface_mp4   == EYE \o FACE \o DOT_MP4

\* names with more than one cue
faceside_mp4      == FACE \o SIDE \o DOT_MP4
EyeFace_json      == <<"E","y","e","F","a","c","e">> \o DOT_JSON
eyeside_json      == EYE \o SIDE \o DOT_JSON
facebehavior_json == FACE \o BEHAVIOR \o DOT_JSON

\* the raw files of the doctest of write_platform_json (line 75)
Eye_20230201T122604 ==
    <<"E","y","e","_","2","0","2","3","0","2","0","1","T","1","2","2","6","0","4">>
Eye_20230201T122604_mp4  == Eye_20230201T122604 \o DOT_MP4
Eye_20230201T122604_json == Eye_20230201T122604 \o DOT_JSON

\* the files the classifier is exercised on
NameUniverse ==
    {eye_mp4, Eye_json, face_mp4, face_json, side_mp4, behavior_json,
     xeye_json, video_mp4, notes_txt, eyeface_mp4}

\* the raw directories the workflow is exercised on, each with the case
\* folding of the file system it is on: <<directory, fold>>
RawDirs ==
    {<<{eye_mp4, Eye_json}, TRUE>>, <<{eye_mp4, face_json}, FALSE>>,
     <<{eye_mp4, eye2_mp4}, FALSE>>, <<{}, TRUE>>}

\* files the facility deposits under a job's output root: <<subdirectory, name>>
eye_tracking_dir == EYE \o TRACKING
logs_dir         == <<"l","o","g","s">>
ellipse_h5       == ELLIPSE \o DOT_H5
points_h5        == <<"p","t","s">> \o DOT_H5
OutputUniverse ==
    {<<eye_tracking_dir, ellipse_h5>>, <<eye_tracking_dir, points_h5>>,
     <<logs_dir, ellipse_h5>>}

Procs == {1, 2}

(***************************************************************************)
(* State                                                                   *)
(***************************************************************************)
VARIABLES
    rawDir,         \* names of the files in session.npexp_path
    fold,           \* TRUE iff pathlib globs case-insensitively (Windows)
    state,          \* session.state: the keys 'spoof' and 'dlc_started'
    created,        \* number of jobs np_session.generate_ephys_session created
    limsPath,       \* jobs whose lims_path is set
    output,         \* <<job, <<subdirectory, name>>>> present under lims_path
    incoming,       \* names copied to DEFAULT_INCOMING_ROOT
    manifests,      \* job -> content of <job>_platform.json
    triggers,       \* jobs whose trigger file was written
    pc,             \* per process: the line it is at
    stack,          \* per process: the lines its callers resume at
    spoof_session,  \* per process: the value get_spoof_ecephys_session returned
    toCopy,         \* per process: files the copy loop has still to copy
    dlc_path,       \* per process: the local dlc_path of get_eye_tracking_paths
    gvfTodo,        \* per process: files the loop of get_video_files has still
                    \* to enumerate
    gvfAcc,         \* per process: lims_name_to_path and the failed assertion
    call,           \* per process: the top-level call in progress (history)
    last,           \* per process: the last completed top-level call (history)
    prev,           \* per process: the call completed before it, kept when both
                    \* are calls of get_spoof_ecephys_session (history)
    fails           \* number of failures and crashes so far

envVars   == <<rawDir, fold>>
worldVars == <<state, created, limsPath, output, incoming, manifests, triggers>>
localVars == <<pc, stack, spoof_session, toCopy, dlc_path, gvfTodo, gvfAcc>>
histVars  == <<call, last, prev>>
vars == <<rawDir, fold, state, created, limsPath, output, incoming, manifests,
          triggers, pc, stack, spoof_session, toCopy, dlc_path, gvfTodo, gvfAcc,
          call, last, prev, fails>>

None  == <<>>
NoJob == 0

\* str(spoof): the identifier of a job as stored in session.state['spoof']
StrOf(job) == <<"ecephys_session", job>>

\* variant: the identifier is resolved to another job than the one it names
PipelineSession_Other(s) == s[2] + 1

\* np_session.PipelineSession(existing): the job an identifier names
PipelineSession(s) == s[2]

\* the truth value Python gives a value read from session.state
Truthy(v) == v # None

\* variant: the upload is launched only while no job is recorded
NeedsUpload_SpoofOnly(st) == ~Truthy(st.spoof)

\* variant: the upload is launched only when both keys are unset
NeedsUpload_Both(st) == ~Truthy(st.spoof) /\ ~st.dlc_started

\* the condition of get_dlc_paths for launching the upload
NeedsUpload(st) == ~Truthy(st.spoof) \/ ~st.dlc_started

\* variant: the name without its last suffix (pathlib's stem)
PathName_Stem(path) ==
    LET n == Len(path)
        IsLastDot(i) == path[i] = "." /\ \A j \in (i + 1)..n : path[j] # "."
    IN  IF \E i \in 2..(n - 1) : IsLastDot(i)
        THEN SubSeq(path, 1, (CHOOSE i \in 2..(n - 1) : IsLastDot(i)) - 1)
        ELSE path

\* pathlib's name: what follows the last separator of the path
PathName(path) ==
    LET n == Len(path)
        seps == {i \in 1..n : path[i] = "/"}
    IN  IF seps = {} THEN path
        ELSE SubSeq(path, (CHOOSE i \in seps : \A j \in seps : j <= i) + 1, n)

\* variant: the roles map to the file names directly
Manifest_Flat(video_files) ==
    [k \in DOMAIN video_files |-> PathName(video_files[k])]

\* the JSON document write_platform_json dumps
Manifest(video_files) ==
    [files |-> [k \in DOMAIN video_files |-> [filename |-> PathName(video_files[k])]]]

EndsWith(suffix, s) ==
    /\ Len(s) >= Len(suffix)
    /\ SubSeq(s, Len(s) - Len(suffix) + 1, Len(s)) = suffix

\* spoof_session.lims_path.glob('*_tracking/*')
TrackingListing(job, out) ==
    {f \in OutputUniverse : <<job, f>> \in out /\ EndsWith(TRACKING, f[1])}

\* the files of a listing that `'ellipse' in f.name` keeps
EllipseCandidates(listing) == {f \in listing : Contains(ELLIPSE, f[2])}

\* variant: the bundle pairs the ellipse file with the eye video
Bundle_Video(video_files, job, f) ==
    [raw_eye_tracking_video_meta_data |-> <<"npexp_path", video_files["eye_tracking"]>>,
     raw_eye_tracking_filepath        |-> <<"lims_path", job, f[1], f[2]>>]

\* the dict get_eye_tracking_paths returns
Bundle(video_files, job, f) ==
    [raw_eye_tracking_video_meta_data |-> <<"npexp_path", video_files["eye_cam_json"]>>,
     raw_eye_tracking_filepath        |-> <<"lims_path", job, f[1], f[2]>>]

\* variant: the files are not copied
UpNext_NoCopy(label) ==
    CASE label = "up90" -> "up92"
      [] label = "up92" -> "up95"
      [] label = "up95" -> "up97"
      [] OTHER -> "up98"

\* variant: the trigger file is written first
UpNext_TriggerFirst(label) ==
    CASE label = "up90" -> "up97"
      [] label = "up97" -> "up92"
      [] label = "up92" -> "up85"
      [] label = "up85" -> "up95"
      [] label = "up95" -> "up98"
      [] OTHER -> "up98"

\* the statement upload_video_data_to_lims runs after the one at label
UpNext(label) ==
    CASE label = "up90" -> "up92"
      [] label = "up92" -> "up85"
      [] label = "up85" -> "up95"
      [] label = "up95" -> "up97"
      [] label = "up97" -> "up98"
      [] OTHER -> "up98"

\* a *_tracking subdirectory of the output root of the recorded job holds a
\* file named like 'ellipse'
JobHasEllipse ==
    /\ Truthy(state.spoof)
    /\ PipelineSession(state.spoof) \in limsPath
    /\ EllipseCandidates(TrackingListing(PipelineSession(state.spoof), output)) # {}

NoBundle == [raw_eye_tracking_video_meta_data |-> None,
             raw_eye_tracking_filepath        |-> None]

\* history of one top-level call: session.state when it started, what it did,
\* the ellipse files it listed and how it ended
CallRecord(op, st, ell, result) ==
    [op |-> op, start |-> st, startEllipse |-> ell, effects |-> {}, copied |-> {},
     listed |-> FALSE, ellipses |-> {}, result |-> result, job |-> NoJob,
     bundle |-> NoBundle, video_files |-> GvfEmpty, changed |-> FALSE]
NewCall(op) == CallRecord(op, state, JobHasEllipse, "running")
NoCall == CallRecord("none", [spoof |-> None, dlc_started |-> FALSE], FALSE, "none")

Range(f) == {f[k] : k \in DOMAIN f}

(***************************************************************************)
(* Initial states                                                          *)
(***************************************************************************)
InitWorld ==
    /\ state = [spoof |-> None, dlc_started |-> FALSE]
    /\ created = 0
    /\ limsPath = {}
    /\ output = {}
    /\ incoming = {}
    /\ manifests = <<>>
    /\ triggers = {}
    /\ pc = [p \in Procs |-> IF p = 1 THEN "idle" ELSE "off"]
    /\ stack = [p \in Procs |-> <<>>]
    /\ spoof_session = [p \in Procs |-> NoJob]
    /\ toCopy = [p \in Procs |-> {}]
    /\ dlc_path = [p \in Procs |-> None]
    /\ gvfTodo = [p \in Procs |-> {}]
    /\ gvfAcc = [p \in Procs |-> GvfEmpty]
    /\ call = [p \in Procs |-> NoCall]
    /\ last = [p \in Procs |-> NoCall]
    /\ prev = [p \in Procs |-> NoCall]
    /\ fails = 0

\* one process works on a session with an empty state store
Init ==
    /\ \E d \in RawDirs : rawDir = d[1] /\ fold = d[2]
    /\ InitWorld

(***************************************************************************)
(* Call and return                                                         *)
(***************************************************************************)
\* the top-level call of p ends (normally or by an exception)
Done(p, c, result, job, bundle) ==
    /\ pc' = [pc EXCEPT ![p] = "idle"]
    /\ stack' = [stack EXCEPT ![p] = <<>>]
    /\ spoof_session' = [spoof_session EXCEPT ![p] = NoJob]
    /\ toCopy' = [toCopy EXCEPT ![p] = {}]
    /\ dlc_path' = [dlc_path EXCEPT ![p] = None]
    /\ gvfTodo' = [gvfTodo EXCEPT ![p] = {}]
    /\ gvfAcc' = [gvfAcc EXCEPT ![p] = GvfEmpty]
    /\ call' = [call EXCEPT ![p] = NoCall]
    /\ last' = [last EXCEPT ![p] =
                  [c EXCEPT !.result = result, !.job = job, !.bundle = bundle]]
    /\ prev' = [prev EXCEPT ![p] =
                  IF c.op = "get_spoof_ecephys_session" /\ last[p].op = c.op
                  THEN last[p] ELSE NoCall]

\* an exception propagates out of the top-level call: nothing catches it
Raise(p, c, error) == Done(p, c, error, NoJob, NoBundle)

\* get_spoof_ecephys_session returns job
RetSpoof(p, c, job) ==
    IF stack[p] = <<>>
    THEN Done(p, c, "returned", job, NoBundle)
    ELSE /\ pc' = [pc EXCEPT ![p] = Head(stack[p])]
         /\ stack' = [stack EXCEPT ![p] = Tail(stack[p])]
         /\ spoof_session' = [spoof_session EXCEPT ![p] = job]
         /\ call' = [call EXCEPT ![p] = c]
         /\ UNCHANGED <<toCopy, dlc_path, gvfTodo, gvfAcc, last, prev>>

\* upload_video_data_to_lims returns
RetUpload(p, c) ==
    IF stack[p] = <<>>
    THEN Done(p, c, "returned", NoJob, NoBundle)
    ELSE /\ pc' = [pc EXCEPT ![p] = Head(stack[p])]
         /\ stack' = [stack EXCEPT ![p] = Tail(stack[p])]
         /\ call' = [call EXCEPT ![p] = c]
         /\ UNCHANGED <<spoof_session, toCopy, dlc_path, gvfTodo, gvfAcc, last, prev>>

Goto(p, label) == pc' = [pc EXCEPT ![p] = label]

Did(c, effect) == [c EXCEPT !.effects = @ \cup {effect}]

\* a caller invokes operation op, whose first statement is at label
Invoke(p, op, label) ==
    /\ pc[p] = "idle"
    /\ Goto(p, label)
    /\ call' = [call EXCEPT ![p] = NewCall(op)]
    /\ UNCHANGED <<envVars, worldVars, stack, spoof_session, toCopy, dlc_path,
                   gvfTodo, gvfAcc, last, prev, fails>>

CallGetSpoof(p) == Invoke(p, "get_spoof_ecephys_session", "gs29")

CallUpload(p) == Invoke(p, "upload_video_data_to_lims", "up89")

CallGetEye(p) == Invoke(p, "get_eye_tracking_paths", "dlc101")

CallGetVideoFiles(p) == Invoke(p, "get_video_files", "gvf45")

(***************************************************************************)
(* get_video_files, statement by statement                                 *)
(***************************************************************************)
\* lines 45-46: the dict is empty and the glob selects the files to enumerate
gvf45(p) ==
    /\ pc[p] = "gvf45"
    /\ gvfTodo' = [gvfTodo EXCEPT ![p] = Glob(rawDir, fold)]
    /\ gvfAcc' = [gvfAcc EXCEPT ![p] = GvfEmpty]
    /\ Goto(p, "gvf46")
    /\ UNCHANGED <<envVars, worldVars, stack, spoof_session, toCopy, dlc_path,
                   histVars, fails>>

\* lines 46-64: one iteration, on whichever file the file system lists next;
\* a failed assertion ends the call
gvf46(p) ==
    /\ pc[p] = "gvf46"
    /\ \E path \in gvfTodo[p] : \E acc \in {GvfBody(gvfAcc[p], path)} :
         IF acc.err # "none"
         THEN Raise(p, [call[p] EXCEPT !.video_files = acc], "ClassificationError")
         ELSE /\ gvfAcc' = [gvfAcc EXCEPT ![p] = acc]
              /\ gvfTodo' = [gvfTodo EXCEPT ![p] = @ \ {path}]
              /\ UNCHANGED <<pc, stack, spoof_session, toCopy, dlc_path, histVars>>
    /\ UNCHANGED <<envVars, worldVars, fails>>

\* lines 65-66: after the loop, the assertion on the dict, and the return
gvf65(p) ==
    /\ pc[p] = "gvf46"
    /\ gvfTodo[p] = {}
    /\ LET acc == GvfEnd(gvfAcc[p])
       IN  IF acc.err # "none"
           THEN Raise(p, [call[p] EXCEPT !.video_files = acc], "ClassificationError")
           ELSE IF stack[p] = <<>>
           THEN Done(p, [call[p] EXCEPT !.video_files = acc], "returned", NoJob, NoBundle)
           ELSE /\ pc' = [pc EXCEPT ![p] = Head(stack[p])]
                /\ stack' = [stack EXCEPT ![p] = Tail(stack[p])]
                /\ UNCHANGED <<spoof_session, toCopy, dlc_path, gvfTodo, gvfAcc,
                               histVars>>
    /\ UNCHANGED <<envVars, worldVars, fails>>

\* a statement at label calls get_video_files and resumes at ret
CallGvf(p, label, ret) ==
    /\ pc[p] = label
    /\ Goto(p, "gvf45")
    /\ stack' = [stack EXCEPT ![p] = <<ret>> \o @]
    /\ UNCHANGED <<envVars, worldVars, spoof_session, toCopy, dlc_path, gvfTodo,
                   gvfAcc, histVars, fails>>

(***************************************************************************)
(* get_spoof_ecephys_session                                               *)
(***************************************************************************)
\* variant: the recorded job is never found
Existing_Never(st) == FALSE

\* lines 29-30: state['spoof'] holds a job
Existing(st) == Truthy(st.spoof)

\* lines 29-32: read state['spoof']; return the recorded job if there is one
gs29(p) ==
    /\ pc[p] = "gs29"
    /\ IF Existing(state)
       THEN RetSpoof(p, call[p], PipelineSession(state.spoof))
       ELSE /\ Goto(p, "gs33")
            /\ UNCHANGED <<stack, spoof_session, toCopy, dlc_path, gvfTodo, gvfAcc,
                           histVars>>
    /\ UNCHANGED <<envVars, worldVars, fails>>

\* line 33: the registry creates a job
gs33(p) ==
    /\ pc[p] = "gs33"
    /\ created' = created + 1
    /\ spoof_session' = [spoof_session EXCEPT ![p] = created + 1]
    /\ call' = [call EXCEPT ![p] = Did(@, "create")]
    /\ Goto(p, "gs35")
    /\ UNCHANGED <<envVars, state, limsPath, output, incoming, manifests, triggers,
                   stack, toCopy, dlc_path, gvfTodo, gvfAcc, last, prev, fails>>

\* lines 35-36: record the job in state['spoof'] and return it
gs35(p) ==
    /\ pc[p] = "gs35"
    /\ state' = [state EXCEPT !.spoof = StrOf(spoof_session[p])]
    /\ RetSpoof(p, Did(call[p], "set_spoof"), spoof_session[p])
    /\ UNCHANGED <<envVars, created, limsPath, output, incoming, manifests,
                   triggers, fails>>

(***************************************************************************)
(* upload_video_data_to_lims                                               *)
(***************************************************************************)
\* line 89: call get_spoof_ecephys_session
up89(p) ==
    /\ pc[p] = "up89"
    /\ Goto(p, "gs29")
    /\ stack' = [stack EXCEPT ![p] = <<"up90">> \o @]
    /\ call' = [call EXCEPT ![p] = Did(@, "upload")]
    /\ UNCHANGED <<envVars, worldVars, spoof_session, toCopy, dlc_path, gvfTodo,
                   gvfAcc, last, prev, fails>>

\* line 90: write the job to state['spoof'] again
up90(p) ==
    /\ pc[p] = "up90"
    /\ state' = [state EXCEPT !.spoof = StrOf(spoof_session[p])]
    /\ call' = [call EXCEPT ![p] = Did(@, "set_spoof")]
    /\ Goto(p, UpNext("up90"))
    /\ UNCHANGED <<envVars, created, limsPath, output, incoming, manifests,
                   triggers, stack, spoof_session, toCopy, dlc_path, gvfTodo,
                   gvfAcc, last, prev, fails>>

\* variant: only the videos are copied
FilesToCopy_VideosOnly(video_files) ==
    {video_files[k] : k \in DOMAIN video_files
                        \cap {"eye_tracking", "face_tracking", "behavior_tracking"}}

\* line 84: the paths the loop copies are the values of the dict
FilesToCopy(video_files) == Range(video_files)

\* lines 92, 84: copy_video_files_to_lims_incoming_dir calls get_video_files
up92(p) == CallGvf(p, "up92", "up84")

\* line 84: the loop is over the values of the dict
up84(p) ==
    /\ pc[p] = "up84"
    /\ toCopy' = [toCopy EXCEPT ![p] = FilesToCopy(gvfAcc[p].map)]
    /\ Goto(p, UpNext("up92"))
    /\ UNCHANGED <<envVars, worldVars, stack, spoof_session, dlc_path, gvfTodo,
                   gvfAcc, histVars, fails>>

\* line 85: np_tools.copy of one file, and the end of the loop; a file that
\* left the directory since it was classified cannot be copied
up85(p) ==
    /\ pc[p] = "up85"
    /\ IF toCopy[p] = {}
       THEN /\ Goto(p, UpNext("up85"))
            /\ UNCHANGED <<incoming, toCopy, call, stack, spoof_session, dlc_path,
                           gvfTodo, gvfAcc, last, prev>>
       ELSE \E f \in toCopy[p] :
              IF f \in rawDir
              THEN /\ incoming' = incoming \cup {f}
                   /\ toCopy' = [toCopy EXCEPT ![p] = @ \ {f}]
                   /\ call' = [call EXCEPT ![p] =
                                 [Did(@, "copy") EXCEPT !.copied = @ \cup {f}]]
                   /\ UNCHANGED <<pc, stack, spoof_session, dlc_path, gvfTodo,
                                  gvfAcc, last, prev>>
              ELSE /\ Raise(p, call[p], "CopyError")
                   /\ UNCHANGED incoming
    /\ UNCHANGED <<envVars, state, created, limsPath, output, manifests, triggers,
                   fails>>

\* lines 95, 79: write_platform_json calls get_video_files
up95(p) == CallGvf(p, "up95", "up80")

\* line 80: write the manifest of the job
up80(p) ==
    /\ pc[p] = "up80"
    /\ manifests' = (spoof_session[p] :> Manifest(gvfAcc[p].map)) @@ manifests
    /\ call' = [call EXCEPT ![p] = Did(@, "manifest")]
    /\ Goto(p, UpNext("up95"))
    /\ UNCHANGED <<envVars, state, created, limsPath, output, incoming, triggers,
                   stack, spoof_session, toCopy, dlc_path, gvfTodo, gvfAcc, last,
                   prev, fails>>

\* line 97: np_session.write_trigger_file
up97(p) ==
    /\ pc[p] = "up97"
    /\ triggers' = triggers \cup {spoof_session[p]}
    /\ call' = [call EXCEPT ![p] = Did(@, "trigger")]
    /\ Goto(p, UpNext("up97"))
    /\ UNCHANGED <<envVars, state, created, limsPath, output, incoming, manifests,
                   stack, spoof_session, toCopy, dlc_path, gvfTodo, gvfAcc, last,
                   prev, fails>>

\* line 98: state['dlc_started'] = True, and return
up98(p) ==
    /\ pc[p] = "up98"
    /\ state' = [state EXCEPT !.dlc_started = TRUE]
    /\ RetUpload(p, Did(call[p], "set_started"))
    /\ UNCHANGED <<envVars, created, limsPath, output, incoming, manifests,
                   triggers, fails>>

(***************************************************************************)
(* get_dlc_paths and get_eye_tracking_paths                                *)
(***************************************************************************)
\* lines 101-103: launch the upload unless a job is recorded and started
dlc101(p) ==
    /\ pc[p] = "dlc101"
    /\ IF NeedsUpload(state)
       THEN /\ Goto(p, "up89")
            /\ stack' = [stack EXCEPT ![p] = <<"dlc104">> \o @]
       ELSE /\ Goto(p, "dlc104")
            /\ UNCHANGED stack
    /\ UNCHANGED <<envVars, worldVars, spoof_session, toCopy, dlc_path, gvfTodo,
                   gvfAcc, histVars, fails>>

\* line 104: call get_spoof_ecephys_session
dlc104(p) ==
    /\ pc[p] = "dlc104"
    /\ Goto(p, "gs29")
    /\ stack' = [stack EXCEPT ![p] = <<"dlc105">> \o @]
    /\ UNCHANGED <<envVars, worldVars, spoof_session, toCopy, dlc_path, gvfTodo,
                   gvfAcc, histVars, fails>>

\* lines 105-109: the lims_path assertion, the listing of '*_tracking/*' and
\* the first listed file whose name contains 'ellipse' (the order of the
\* listing is the file system's)
dlc105(p) ==
    /\ pc[p] = "dlc105"
    /\ IF spoof_session[p] \notin limsPath
       THEN Raise(p, call[p], "NoLimsPath")
       ELSE LET listing == TrackingListing(spoof_session[p], output)
                c == [call[p] EXCEPT !.listed = TRUE,
                                     !.ellipses = EllipseCandidates(listing)]
            IN  IF EllipseCandidates(listing) = {}
                THEN /\ Goto(p, "eye110")
                     /\ call' = [call EXCEPT ![p] = c]
                     /\ UNCHANGED <<stack, spoof_session, toCopy, dlc_path, gvfTodo,
                                    gvfAcc, last, prev>>
                ELSE \E f \in EllipseCandidates(listing) :
                       /\ dlc_path' = [dlc_path EXCEPT ![p] = f]
                       /\ Goto(p, "eye116")
                       /\ call' = [call EXCEPT ![p] = c]
                       /\ UNCHANGED <<stack, spoof_session, toCopy, gvfTodo, gvfAcc,
                                      last, prev>>
    /\ UNCHANGED <<envVars, worldVars, fails>>

\* lines 110-114: no ellipse file: pending if started, else FileNotFoundError
eye110(p) ==
    /\ pc[p] = "eye110"
    /\ IF state.dlc_started
       THEN Done(p, call[p], "Pending", NoJob, NoBundle)
       ELSE Raise(p, call[p], "FileNotFoundError")
    /\ UNCHANGED <<envVars, worldVars, fails>>

\* line 116: call get_video_files
eye116(p) == CallGvf(p, "eye116", "eye117")

\* lines 116-118: pair the raw eye_cam_json file with the ellipse file
eye117(p) ==
    /\ pc[p] = "eye117"
    /\ IF "eye_cam_json" \notin DOMAIN gvfAcc[p].map
       THEN Raise(p, call[p], "KeyError")
       ELSE Done(p, call[p], "Bundle", NoJob,
                 Bundle(gvfAcc[p].map, spoof_session[p], dlc_path[p]))
    /\ UNCHANGED <<envVars, worldVars, fails>>

(***************************************************************************)
(* Collaborators and environment                                           *)
(***************************************************************************)
\* a collaborator call of p fails, or the process of p crashes: the call
\* ends with what it did so far; session.state and the files stay
Fail(p) ==
    /\ pc[p] \notin {"idle", "off"}
    /\ fails < MaxFails
    /\ fails' = fails + 1
    /\ Raise(p, call[p], "CollaboratorError")
    /\ UNCHANGED <<envVars, worldVars>>

\* the facility assigns a job its output root once the trigger file of the
\* job announced the upload
LimsAssignPath(job) ==
    /\ job \in triggers
    /\ job \notin limsPath
    /\ limsPath' = limsPath \cup {job}
    /\ UNCHANGED <<envVars, state, created, output, incoming, manifests, triggers,
                   localVars, histVars, fails>>

\* the facility deposits a file under the output root of a triggered job
LimsDeposit(job, f) ==
    /\ job \in triggers
    /\ job \in limsPath
    /\ <<job, f>> \notin output
    /\ output' = output \cup {<<job, f>>}
    /\ UNCHANGED <<envVars, state, created, limsPath, incoming, manifests, triggers,
                   localVars, histVars, fails>>

\* a file appears in the raw directory (the history of the calls made on
\* the directory as it was is dropped)
CreateFile(n) ==
    /\ \A p \in Procs : pc[p] \in {"idle", "off"}
    /\ n \notin rawDir
    /\ Cardinality(rawDir) < MaxFiles
    /\ rawDir' = rawDir \cup {n}
    /\ last' = [p \in Procs |-> NoCall]
    /\ prev' = [p \in Procs |-> NoCall]
    /\ UNCHANGED <<fold, worldVars, localVars, call, fails>>

\* the histories of the calls that ran, or run, on the directory that changes
DirChanged(h) ==
    [p \in Procs |-> IF h[p].op = "none" THEN h[p] ELSE [h[p] EXCEPT !.changed = TRUE]]

\* a file appears in the raw directory, whatever the calls in progress
AddFile(n) ==
    /\ n \notin rawDir
    /\ rawDir' = rawDir \cup {n}
    /\ call' = DirChanged(call)
    /\ last' = DirChanged(last)
    /\ UNCHANGED <<fold, worldVars, localVars, prev, fails>>

\* a file leaves the raw directory, whatever the calls in progress
RemoveFile(n) ==
    /\ n \in rawDir
    /\ rawDir' = rawDir \ {n}
    /\ call' = DirChanged(call)
    /\ last' = DirChanged(last)
    /\ UNCHANGED <<fold, worldVars, localVars, prev, fails>>

\* the statements of get_video_files
GvfStep(p) == gvf45(p) \/ gvf46(p) \/ gvf65(p)

Step(p) ==
    \/ GvfStep(p)
    \/ gs29(p) \/ gs33(p) \/ gs35(p)
    \/ up89(p) \/ up90(p) \/ up92(p) \/ up84(p) \/ up85(p) \/ up95(p) \/ up80(p)
    \/ up97(p) \/ up98(p)
    \/ dlc101(p) \/ dlc104(p) \/ dlc105(p) \/ eye110(p) \/ eye116(p) \/ eye117(p)

Next ==
    \/ \E p \in Procs : CallGetSpoof(p)
    \/ \E p \in Procs : CallUpload(p)
    \/ \E p \in Procs : CallGetEye(p)
    \/ \E p \in Procs : Step(p)
    \/ \E p \in Procs : Fail(p)
    \/ \E job \in triggers : LimsAssignPath(job)
    \/ \E job \in triggers, f \in OutputUniverse : LimsDeposit(job, f)

Spec == Init /\ [][Next]_vars

\* the caller uses the entry point only: it polls get_eye_tracking_paths
NextPoll ==
    \/ \E p \in Procs : CallGetEye(p)
    \/ \E p \in Procs : Step(p)
    \/ \E p \in Procs : Fail(p)
    \/ \E job \in triggers : LimsAssignPath(job)
    \/ \E job \in triggers, f \in OutputUniverse : LimsDeposit(job, f)

\* the program runs on, the caller polls again and again, and collaborators
\* fail at most MaxFails times
FairSpec ==
    Init /\ [][NextPoll]_vars /\ WF_vars(Step(1)) /\ WF_vars(CallGetEye(1))

(***************************************************************************)
(* get_video_files called on a directory that fills up                     *)
(***************************************************************************)
InitClassify ==
    /\ rawDir = {}
    /\ fold \in BOOLEAN
    /\ InitWorld

\* the caller classifies a directory once, and files keep arriving
NextClassify ==
    \/ \E n \in NameUniverse : CreateFile(n)
    \/ last[1] = NoCall /\ CallGetVideoFiles(1)
    \/ GvfStep(1)

SpecClassify == InitClassify /\ [][NextClassify]_vars

(***************************************************************************)
(* get_video_files on names with several cues                              *)
(***************************************************************************)
\* the files the precedence of the cues is exercised on
CueNames ==
    {eye_mp4, eyeface_mp4, faceside_mp4, EyeFace_json, eyeside_json,
     facebehavior_json}

NextCues ==
    \/ \E n \in CueNames : CreateFile(n)
    \/ last[1] = NoCall /\ CallGetVideoFiles(1)
    \/ GvfStep(1)

SpecCues == InitClassify /\ [][NextCues]_vars

(***************************************************************************)
(* Two processes call get_eye_tracking_paths on the same session           *)
(***************************************************************************)
\* a second process opens the session
StartProcess(p) ==
    /\ pc[p] = "off"
    /\ pc' = [pc EXCEPT ![p] = "idle"]
    /\ UNCHANGED <<envVars, worldVars, stack, spoof_session, toCopy, dlc_path,
                   gvfTodo, gvfAcc, histVars, fails>>

\* the statements of a call that finds no output of the facility
RaceStep(p) ==
    \/ GvfStep(p)
    \/ gs29(p) \/ gs33(p) \/ gs35(p)
    \/ up89(p) \/ up90(p) \/ up92(p) \/ up84(p) \/ up85(p) \/ up95(p) \/ up80(p)
    \/ up97(p) \/ up98(p)
    \/ dlc101(p) \/ dlc104(p) \/ dlc105(p) \/ eye110(p)

\* each process calls the entry point once, the statements of the two calls
\* interleave in any order
NextRace ==
    \/ \E p \in Procs : StartProcess(p)
    \/ \E p \in Procs : last[p] = NoCall /\ CallGetEye(p)
    \/ \E p \in Procs : RaceStep(p)
    \/ \E job \in triggers : LimsAssignPath(job)

InitRace ==
    /\ rawDir = {eye_mp4, face_json}
    /\ fold = FALSE
    /\ InitWorld

SpecRace == InitRace /\ [][NextRace]_vars

(***************************************************************************)
(* upload_video_data_to_lims called while the raw directory changes        *)
(***************************************************************************)
\* the files the upload is exercised on
UploadNames == {Eye_20230201T122604_mp4, Eye_20230201T122604_json, face_json}

\* the statements a call of upload_video_data_to_lims runs
UploadStep(p) ==
    \/ GvfStep(p)
    \/ gs29(p) \/ gs33(p) \/ gs35(p)
    \/ up89(p) \/ up90(p) \/ up92(p) \/ up84(p) \/ up85(p) \/ up95(p) \/ up80(p)
    \/ up97(p) \/ up98(p)

\* the caller uploads the session once, and files come and go at any time
NextUpload ==
    \/ \E n \in UploadNames : AddFile(n)
    \/ \E n \in UploadNames : RemoveFile(n)
    \/ last[1] = NoCall /\ CallUpload(1)
    \/ UploadStep(1)

SpecUpload == InitClassify /\ [][NextUpload]_vars

(***************************************************************************)
(* Properties                                                              *)
(***************************************************************************)
GetSpoof == "get_spoof_ecephys_session"
Upload   == "upload_video_data_to_lims"
GetEye   == "get_eye_tracking_paths"

\* the raw directory classifies without an assertion failure
RawClassifies == \A r \in get_video_files(rawDir, fold) : r.err = "none"

\* the files get_video_files returns for the raw directory
ClassifiedFiles == UNION {Range(r.map) : r \in get_video_files(rawDir, fold)}

UploadEffects == {"copy", "manifest", "trigger", "set_started"}

\* C1: two calls of get_spoof_ecephys_session in sequence, neither failing,
\* return the same job, and the registry creates a job in at most one of them
C1_JobIdempotency ==
    \A p \in Procs :
        (/\ last[p].op = GetSpoof /\ last[p].result = "returned"
         /\ prev[p].op = GetSpoof /\ prev[p].result = "returned")
        => /\ last[p].job = prev[p].job
           /\ ~("create" \in prev[p].effects /\ "create" \in last[p].effects)

C1_Witness ==
    /\ last[1].op = GetSpoof /\ last[1].result = "returned"
    /\ prev[1].op = GetSpoof /\ prev[1].result = "returned"
    /\ "create" \in prev[1].effects
    /\ ~Truthy(prev[1].start.spoof)

\* C2 as stated: at most one job is ever created for the session, whatever
\* fails or crashes
C2_AtMostOneJobCreated == created <= 1

\* C2 (amended): once state['spoof'] records a job, no step creates another
\* job and the recorded job stays the same
C2_NoJobAfterRecorded ==
    [][Truthy(state.spoof) => (created' = created /\ state'.spoof = state.spoof)]_vars

C2_Witness ==
    /\ Truthy(state.spoof)
    /\ fails > 0
    /\ last[1].result \in {"returned", "Pending"}
    /\ Truthy(last[1].start.spoof)

FreshCall(c) ==
    /\ c.op = GetEye
    /\ ~Truthy(c.start.spoof) /\ ~c.start.dlc_started
    /\ RawClassifies
    /\ c.result \notin {"none", "CollaboratorError"}

\* C3: on a fresh session with classifiable raw files, a call of
\* get_eye_tracking_paths that no collaborator fails triggers the upload and
\* returns Pending
C3_FreshReturnsPending ==
    \A p \in Procs :
        FreshCall(last[p])
        => /\ UploadEffects \subseteq last[p].effects
           /\ last[p].result = "Pending"

PollCall(c) ==
    /\ c.op = GetEye
    /\ Truthy(c.start.spoof) /\ c.start.dlc_started
    /\ c.ellipses = {}
    /\ c.result \notin {"none", "CollaboratorError"}

\* C4: with a job recorded and started and no ellipse file in its
\* output area, a call of get_eye_tracking_paths returns Pending and has no
\* effect
C4_PollReturnsPending ==
    \A p \in Procs :
        PollCall(last[p]) => (last[p].result = "Pending" /\ last[p].effects = {})

\* the bundle pairs the raw eye_cam_json file with an ellipse file of an
\* immediate *_tracking subdirectory of the output root of the recorded job
GoodBundle(b) ==
    /\ DOMAIN b = {"raw_eye_tracking_video_meta_data", "raw_eye_tracking_filepath"}
    /\ \E n \in rawDir :
         /\ KeyOf(n) = "eye_cam_json"
         /\ b.raw_eye_tracking_video_meta_data = <<"npexp_path", n>>
    /\ \E f \in OutputUniverse :
         /\ b.raw_eye_tracking_filepath =
                <<"lims_path", PipelineSession(state.spoof), f[1], f[2]>>
         /\ <<PipelineSession(state.spoof), f>> \in output
         /\ EndsWith(TRACKING, f[1])
         /\ Contains(ELLIPSE, f[2])

\* C5 as stated: when a *_tracking subdirectory of the output area of the job
\* holds a file named like 'ellipse', get_eye_tracking_paths returns the
\* bundle and does not raise
C5_EllipseGivesBundle ==
    \A p \in Procs :
        (/\ last[p].op = GetEye
         /\ last[p].startEllipse
         /\ last[p].result # "CollaboratorError")
        => (last[p].result = "Bundle" /\ GoodBundle(last[p].bundle))

\* C5 (amended): when the listing of '*_tracking/*' under the output root holds
\* a file named like 'ellipse' and the raw directory classifies with an
\* eye_cam_json file, get_eye_tracking_paths returns the bundle; when the raw
\* directory classifies without an eye_cam_json file it raises KeyError
C5_ListedEllipseGivesBundle ==
    \A p \in Procs :
        (/\ last[p].op = GetEye
         /\ last[p].listed /\ last[p].ellipses # {}
         /\ RawClassifies
         /\ last[p].result # "CollaboratorError")
        => IF \A r \in get_video_files(rawDir, fold) : "eye_cam_json" \in DOMAIN r.map
           THEN last[p].result = "Bundle" /\ GoodBundle(last[p].bundle)
           ELSE last[p].result = "KeyError"

C5_Witness ==
    /\ last[1].op = GetEye
    /\ last[1].result = "Bundle"
    /\ last[1].startEllipse

\* an upload of p failed after the copy loop and before the trigger file,
\* and job j is recorded
UploadFailedMidway(p) ==
    /\ pc[p] = "idle"
    /\ last[p].op \in {Upload, GetEye}
    /\ last[p].result = "CollaboratorError"
    /\ ~last[p].start.dlc_started
    /\ "copy" \in last[p].effects
    /\ last[p].copied = ClassifiedFiles
    /\ "trigger" \notin last[p].effects
    /\ Truthy(state.spoof)

\* C6: after an upload failed between the copies and the trigger file,
\* dlc_started is false and the recorded job stays the recorded job; under
\* polling dlc_started becomes true for that job, whose files, manifest and
\* trigger file are then in place
C6_UploadIdempotency ==
    /\ [](UploadFailedMidway(1) => ~state.dlc_started)
    /\ [][Truthy(state.spoof) => state.spoof' = state.spoof]_vars
    /\ UploadFailedMidway(1)
         ~> (/\ state.dlc_started
             /\ Truthy(state.spoof)
             /\ PipelineSession(state.spoof) \in triggers
             /\ PipelineSession(state.spoof) \in DOMAIN manifests
             /\ ClassifiedFiles \subseteq incoming)

C6_Witness ==
    /\ \E j \in 1..(MaxFails + 1) : state.spoof = StrOf(j)
    /\ state.dlc_started
    /\ prev[1] = NoCall
    /\ last[1].op = GetEye
    /\ ~last[1].start.dlc_started /\ Truthy(last[1].start.spoof)
    /\ UploadEffects \subseteq last[1].effects
    /\ fails > 0

\* C7: dlc_started is true only if a job is recorded whose classified raw
\* files were copied and whose manifest and trigger file were written; an
\* upload that ends before its last statement leaves dlc_started false
C7_StartedOnlyAfterUpload ==
    /\ state.dlc_started
       => /\ Truthy(state.spoof)
          /\ ClassifiedFiles \subseteq incoming
          /\ ClassifiedFiles # {}
          /\ PipelineSession(state.spoof) \in DOMAIN manifests
          /\ PipelineSession(state.spoof) \in triggers
    /\ \A p \in Procs :
         (/\ pc[p] = "idle"
          /\ last[p].op \in {Upload, GetEye}
          /\ ~last[p].start.dlc_started
          /\ "set_started" \notin last[p].effects)
         => ~state.dlc_started

C7_Witness ==
    /\ state.dlc_started
    /\ fails > 0
    /\ last[1].op = Upload

Gvf == "get_video_files"

\* the name has none of the cues, or an extension other than .mp4 and .json
Unrecognized(n) ==
    \/ ~(\/ Contains(EYE, Lower(n)) \/ Contains(FACE, Lower(n))
         \/ Contains(SIDE, Lower(n)) \/ Contains(BEHAVIOR, Lower(n)))
    \/ Lower(Suffix(n)) \notin {DOT_MP4, DOT_JSON}

\* two files of the set map to the same role
SameRolePair(files) ==
    LET keyed == {f \in files : KeyOf(f) # ""}
    IN  Cardinality({KeyOf(f) : f \in keyed}) < Cardinality(keyed)

\* C8 as stated: when the raw directory holds two files that map to the same
\* role, get_video_files fails
C8_DuplicatesRejected ==
    (last[1].op = Gvf /\ SameRolePair(rawDir))
    => last[1].result = "ClassificationError"

\* C8 (amended): when the glob enumerates two files that map to the same
\* role, get_video_files fails; the duplicate assertion names two enumerated
\* files of one role
C8_EnumeratedDuplicatesRejected ==
    /\ (last[1].op = Gvf /\ SameRolePair(Glob(rawDir, fold)))
       => last[1].result = "ClassificationError"
    /\ (last[1].op = Gvf /\ last[1].video_files.err = "duplicate")
       => /\ Cardinality(last[1].video_files.files) = 2
          /\ last[1].video_files.files \subseteq Glob(rawDir, fold)
          /\ SameRolePair(last[1].video_files.files)

C8_Witness ==
    /\ last[1].op = Gvf
    /\ last[1].result = "ClassificationError"
    /\ last[1].video_files.err = "duplicate"

\* C9 as stated: when the raw directory holds an unrecognized file,
\* get_video_files fails
C9_UnrecognizedRejected ==
    (last[1].op = Gvf /\ \E n \in rawDir : Unrecognized(n))
    => last[1].result = "ClassificationError"

\* C9 (amended): when the glob enumerates an unrecognized file,
\* get_video_files fails, and the assertion on the key names such a file; a
\* file the glob does not enumerate is in no returned mapping
C9_EnumeratedUnrecognizedRejected ==
    /\ (last[1].op = Gvf /\ \E n \in Glob(rawDir, fold) : Unrecognized(n))
       => last[1].result = "ClassificationError"
    /\ (last[1].op = Gvf /\ last[1].video_files.err = "unexpected")
       => \E n \in Glob(rawDir, fold) :
             Unrecognized(n) /\ last[1].video_files.files = {n}
    /\ (last[1].op = Gvf /\ last[1].result = "returned")
       => Range(last[1].video_files.map) \subseteq Glob(rawDir, fold)

C9_Witness ==
    /\ last[1].op = Gvf
    /\ last[1].result = "ClassificationError"
    /\ last[1].video_files.err = "unexpected"
    /\ \E n \in rawDir \ Glob(rawDir, fold) : Unrecognized(n)

SixRoles == {"eye_tracking", "face_tracking", "behavior_tracking",
             "eye_cam_json", "face_cam_json", "beh_cam_json"}

\* the cues (side and behavior are one cue) the name contains in any case
CuesOf(n) ==
    {c \in {"eye", "face", "beh"} :
        \/ c = "eye" /\ Contains(EYE, Lower(n))
        \/ c = "face" /\ Contains(FACE, Lower(n))
        \/ c = "beh" /\ (Contains(SIDE, Lower(n)) \/ Contains(BEHAVIOR, Lower(n)))}

\* the role of a file with one cue and a valid extension, by the table of roles
RoleOf(n) ==
    IF Cardinality(CuesOf(n)) # 1 THEN ""
    ELSE LET c == CHOOSE x \in CuesOf(n) : TRUE
         IN  IF Lower(Suffix(n)) = DOT_MP4
             THEN (IF c = "eye" THEN "eye_tracking"
                   ELSE IF c = "face" THEN "face_tracking" ELSE "behavior_tracking")
             ELSE IF Lower(Suffix(n)) = DOT_JSON
             THEN (IF c = "eye" THEN "eye_cam_json"
                   ELSE IF c = "face" THEN "face_cam_json" ELSE "beh_cam_json")
             ELSE ""

\* the directory holds exactly one file per role and nothing else
OnePerRole(dir) ==
    /\ Cardinality(dir) = 6
    /\ {RoleOf(n) : n \in dir} = SixRoles

AllSixMapped(c) ==
    /\ c.result = "returned"
    /\ DOMAIN c.video_files.map = SixRoles
    /\ \A n \in rawDir : c.video_files.map[RoleOf(n)] = n

\* C10 as stated: on a directory with exactly one file per role, the cue
\* anywhere in the name in any case, get_video_files returns the six roles,
\* each with its file, whatever the enumeration order
C10_OnePerRoleClassified ==
    (last[1].op = Gvf /\ OnePerRole(rawDir)) => AllSixMapped(last[1])

\* C10 (amended): that holds when the glob enumerates each of the six files
C10_EnumeratedOnePerRoleClassified ==
    (last[1].op = Gvf /\ OnePerRole(rawDir) /\ Glob(rawDir, fold) = rawDir)
    => AllSixMapped(last[1])

C10_Witness ==
    /\ last[1].op = Gvf
    /\ OnePerRole(rawDir)
    /\ Eye_json \in rawDir
    /\ AllSixMapped(last[1])

\* the raw directory is the one of the doctests and every file of it is
\* enumerated
DoctestDir ==
    /\ rawDir = {Eye_20230201T122604_mp4, Eye_20230201T122604_json}
    /\ Glob(rawDir, fold) = rawDir

\* the call wrote the manifest and the raw directory is as it was all along
WroteManifest(c) ==
    /\ c.op = Upload
    /\ "manifest" \in c.effects
    /\ ~c.changed
    /\ Truthy(state.spoof)
    /\ PipelineSession(state.spoof) \in DOMAIN manifests

\* m is {"files": {role: {"filename": name}}} with the roles and names of
\* video_files and nothing else
NestedManifest(m, video_files) ==
    /\ DOMAIN m = {"files"}
    /\ DOMAIN m.files = DOMAIN video_files
    /\ \A k \in DOMAIN m.files :
         /\ DOMAIN m.files[k] = {"filename"}
         /\ m.files[k].filename = video_files[k]

DoctestFlat ==
    [eye_tracking |-> Eye_20230201T122604_mp4,
     eye_cam_json |-> Eye_20230201T122604_json]

C13_EmptyDirectoryRejected ==
    /\ (/\ last[1].op = Upload
        /\ ~last[1].changed
        /\ Glob(rawDir, fold) = {})
       => /\ last[1].result = "ClassificationError"
          /\ last[1].video_files.err = "empty"
          /\ last[1].video_files.map = NoFiles
          /\ last[1].effects \cap {"copy", "manifest", "trigger", "set_started"} = {}
          /\ manifests = <<>>
          /\ triggers = {}
          /\ incoming = {}
          /\ ~state.dlc_started
    /\ pc[1] \in {"up84", "up80"} => gvfAcc[1].map # NoFiles

C13_Witness ==
    /\ last[1].op = Upload
    /\ ~last[1].changed
    /\ rawDir = {Eye_20230201T122604_mp4, Eye_20230201T122604_json}
    /\ Glob(rawDir, fold) = {}
    /\ last[1].result = "ClassificationError"
    /\ Truthy(state.spoof)

\* the step writes the trigger file in the call of p
WritesTrigger(p) ==
    "trigger" \notin call[p].effects /\ "trigger" \in call'[p].effects

\* the step is line 98 of the call of p
SetsStarted(p) ==
    pc[p] = "up98" /\ pc'[p] # "up98" /\ fails' = fails

\* C14: a step of an upload that writes the trigger file of a job is taken
\* when the same upload has recorded the job in state['spoof'], copied every
\* classified raw file and written the manifest of the job; the step that sets
\* dlc_started is taken when the same upload has written the trigger file
C14_UploadStepOrder ==
    [][\A p \in Procs :
         /\ WritesTrigger(p)
            => /\ state.spoof = StrOf(spoof_session[p])
               /\ "set_spoof" \in call[p].effects
               /\ call[p].copied = ClassifiedFiles
               /\ ClassifiedFiles \subseteq incoming
               /\ "manifest" \in call[p].effects
               /\ spoof_session[p] \in DOMAIN manifests
               /\ spoof_session[p] \in triggers'
               /\ "set_started" \notin call[p].effects
         /\ SetsStarted(p)
            => /\ "trigger" \in call[p].effects
               /\ spoof_session[p] \in triggers
               /\ state'.dlc_started]_vars

C14_Witness ==
    /\ last[1].op = Upload
    /\ last[1].result = "returned"
    /\ last[1].start.dlc_started
    /\ UploadEffects \subseteq last[1].effects
    /\ fails > 0

\* C15: a call of get_eye_tracking_paths that no collaborator fails runs
\* upload_video_data_to_lims iff state['spoof'] was unset or dlc_started was
\* false when it started; it lists the output area only after that upload
\* has run to its end; a call that starts with a job recorded, dlc_started
\* false and an ellipse file present and returns the bundle has copied the
\* files and written the manifest and the trigger file again
C15_UploadExactlyWhenNotStarted ==
    \A p \in Procs :
        (last[p].op = GetEye /\ last[p].result # "CollaboratorError")
        => /\ "upload" \in last[p].effects
              <=> (~Truthy(last[p].start.spoof) \/ ~last[p].start.dlc_started)
           /\ (last[p].listed /\ "upload" \in last[p].effects)
              => UploadEffects \subseteq last[p].effects
           /\ (/\ Truthy(last[p].start.spoof)
               /\ ~last[p].start.dlc_started
               /\ last[p].startEllipse
               /\ last[p].result = "Bundle")
              => /\ UploadEffects \subseteq last[p].effects
                 /\ "create" \notin last[p].effects
                 /\ last[p].copied = ClassifiedFiles

C15_Witness ==
    /\ last[1].op = GetEye
    /\ Truthy(last[1].start.spoof)
    /\ ~last[1].start.dlc_started
    /\ last[1].startEllipse
    /\ last[1].result = "Bundle"
    /\ "trigger" \in last[1].effects

\* the step is line 90 of the call of p
RewritesSpoof(p) ==
    pc[p] = "up90" /\ pc'[p] # "up90" /\ fails' = fails

\* C16: in the executions of one process, failures included, no step changes
\* or clears state['spoof'] once it holds an identifier, the write of line 90
\* finds the identifier it writes already recorded, and no step resets
\* dlc_started once it is true
C16_StateOnlyMovesForward ==
    [][/\ Truthy(state.spoof) => state'.spoof = state.spoof
       /\ state.dlc_started => state'.dlc_started
       /\ \A p \in Procs :
            RewritesSpoof(p)
            => /\ Truthy(state.spoof)
               /\ state.spoof = StrOf(spoof_session[p])
               /\ state'.spoof = state.spoof]_vars

C16_Witness ==
    /\ pc[1] = "up92"
    /\ "set_spoof" \in call[1].effects
    /\ "create" \notin call[1].effects
    /\ state.dlc_started
    /\ Truthy(call[1].start.spoof)

\* get_dlc_paths of the call of p has returned normally (line 109 holds its
\* result)
DlcPathsReturned(p) ==
    /\ call[p].op = GetEye
    /\ call[p].listed
    /\ pc[p] \in {"eye110", "eye116", "eye117"}

\* C18: in the executions of one process, whenever get_dlc_paths has returned
\* normally state['dlc_started'] is true, so line 110 with no ellipse file
\* always takes the pending branch and no call ends with FileNotFoundError
C18_FileNotFoundUnreachable ==
    \A p \in Procs :
        /\ DlcPathsReturned(p) => state.dlc_started
        /\ last[p].result # "FileNotFoundError"
        /\ (last[p].op = GetEye /\ last[p].listed /\ last[p].ellipses = {}
            /\ last[p].result # "CollaboratorError")
           => last[p].result = "Pending"

C18_Witness ==
    /\ last[1].op = GetEye
    /\ last[1].result = "Pending"
    /\ ~last[1].start.dlc_started
    /\ "set_started" \in last[1].effects
    /\ last[1].ellipses = {}

\* the file names a manifest lists
ManifestNames(m) == {m.files[k].filename : k \in DOMAIN m.files}

\* the names under which the call copied its files to the intake directory
CopiedNames(c) == {PathName(f) : f \in c.copied}

\* C19: an upload that returned wrote a manifest for the recorded job, and
\* the names the manifest lists differ from the names the call copied only if
\* the raw directory changed during the call: with the directory unchanged
\* the two sets are equal
C19_ManifestNamesCopiedFiles ==
    (last[1].op = Upload /\ last[1].result = "returned")
    => /\ Truthy(state.spoof)
       /\ PipelineSession(state.spoof) \in DOMAIN manifests
       /\ last[1].copied \subseteq incoming
       /\ ~last[1].changed
          => /\ ManifestNames(manifests[PipelineSession(state.spoof)])
                  = CopiedNames(last[1])
             /\ CopiedNames(last[1]) # {}
       /\ ManifestNames(manifests[PipelineSession(state.spoof)])
             # CopiedNames(last[1])
          => last[1].changed

\* the directory changed between the two classifications: the manifest names
\* a file that was not copied and omits one that was
C19_Witness ==
    /\ last[1].op = Upload
    /\ last[1].result = "returned"
    /\ last[1].changed
    /\ CopiedNames(last[1]) = {Eye_20230201T122604_mp4, face_json}
    /\ ManifestNames(manifests[PipelineSession(state.spoof)])
         = {Eye_20230201T122604_mp4, Eye_20230201T122604_json}
    /\ Eye_20230201T122604_json \notin incoming

\* the role of a file by precedence: side/behavior over face, face over eye
CueRole(n) ==
    LET top == IF "beh" \in CuesOf(n) THEN "beh"
               ELSE IF "face" \in CuesOf(n) THEN "face"
               ELSE IF "eye" \in CuesOf(n) THEN "eye" ELSE ""
    IN  IF top = "" THEN ""
        ELSE IF Lower(Suffix(n)) = DOT_MP4
        THEN (IF top = "eye" THEN "eye_tracking"
              ELSE IF top = "face" THEN "face_tracking" ELSE "behavior_tracking")
        ELSE IF Lower(Suffix(n)) = DOT_JSON
        THEN (IF top = "eye" THEN "eye_cam_json"
              ELSE IF top = "face" THEN "face_cam_json" ELSE "beh_cam_json")
        ELSE ""

\* the dict gives each of its files one role, the one of the last cue tested
OneRoleByPrecedence(map) ==
    /\ \A k \in DOMAIN map : k = CueRole(map[k])
    /\ \A k1, k2 \in DOMAIN map : map[k1] = map[k2] => k1 = k2

\* C20: the dict of get_video_files, while it is built and when it is
\* returned, holds each file under one role only, the role of the cue tested
\* last among those the name contains (side/behavior over face, face over
\* eye); a returned dict holds every enumerated file, and a .mp4 whose name
\* contains eye and face is under face_tracking, never under eye_tracking
C20_LaterCueOverrides ==
    /\ OneRoleByPrecedence(gvfAcc[1].map)
    /\ OneRoleByPrecedence(last[1].video_files.map)
    /\ (last[1].op = Gvf /\ last[1].result = "returned")
       => /\ Range(last[1].video_files.map) = Glob(rawDir, fold)
          /\ eyeface_mp4 \in rawDir
             => /\ "face_tracking" \in DOMAIN last[1].video_files.map
                /\ last[1].video_files.map["face_tracking"] = eyeface_mp4
                /\ \/ "eye_tracking" \notin DOMAIN last[1].video_files.map
                   \/ last[1].video_files.map["eye_tracking"] # eyeface_mp4

C20_Witness ==
    /\ last[1].op = Gvf
    /\ last[1].result = "returned"
    /\ last[1].video_files.map =
         [eye_tracking |-> eye_mp4, face_tracking |-> eyeface_mp4,
          behavior_tracking |-> faceside_mp4, face_cam_json |-> EyeFace_json,
          beh_cam_json |-> eyeside_json]

\* the call of p, in progress or completed
CallOf(p) == IF call[p].op # "none" THEN call[p] ELSE last[p]

\* the processes whose call had the effect
Having(effect) == {p \in Procs : effect \in CallOf(p).effects}

\* the step is a write of state['spoof'] by p (line 35 or line 90)
WritesSpoof(p) ==
    /\ "set_spoof" \in call'[p].effects \cup last'[p].effects
    /\ pc[p] \in {"gs35", "up90"}
    /\ pc'[p] # pc[p]

\* C17: with two processes calling get_eye_tracking_paths once each, a call
\* creates at most one job; two jobs are created only by two calls that both
\* began before a job was recorded, and two calls both write a trigger file
\* only if both began before dlc_started was set; every write of
\* state['spoof'] stores the writer's own job over whatever is recorded
C17_RacesNeedOverlap ==
    /\ [](/\ created = Cardinality(Having("create"))
          /\ created = 2 => \A p \in Procs : ~Truthy(CallOf(p).start.spoof)
          /\ Having("trigger") = Procs
             => \A p \in Procs : ~CallOf(p).start.dlc_started
          /\ triggers \subseteq 1..created)
    /\ [][\A p \in Procs :
            WritesSpoof(p) => state'.spoof = StrOf(spoof_session[p])]_vars

\* both calls created a job and both wrote a trigger file; the job recorded
\* is the one written last, and the other job was triggered as well
C17_Witness ==
    /\ \A p \in Procs : last[p].op = GetEye /\ call[p] = NoCall
    /\ Having("create") = Procs
    /\ Having("trigger") = Procs
    /\ created = 2
    /\ triggers = {1, 2}
    /\ state.spoof = StrOf(2)
    /\ state.dlc_started

====
